---- MODULE Spec2Model ----
(***************************************************************************)
(* Model of app.py (News Eco Maroc): the aggregation pipeline              *)
(* fetch_news_for_day with its helpers clean_html, simple_summarize,       *)
(* parse_entry_datetime, same_day and the two HTML scrapers.               *)
(*                                                                         *)
(* Text is a sequence of tokens.  A token is a one-character string; the   *)
(* characters that the module syntax cannot carry are written by name      *)
(* ("eacute", "Eacute", "ellipsis"), and a markup tag is one token of      *)
(* Markup.  A Python dict is a function whose DOMAIN is its set of keys.   *)
(***************************************************************************)
EXTENDS Integers, Sequences, FiniteSets, TLC

----------------------------------------------------------------------------
(* Parameters (app.py:11-35) *)

RSS_FEEDS ==
  << <<"h","t","t","p","s",":","/","/","w","w","w",".","c","h","a","l","l","e","n","g","e",".","m","a","/","f","e","e","d">>,
     <<"h","t","t","p","s",":","/","/","w","w","w",".","e","c","o","a","c","t","u",".","m","a","/","f","e","e","d">>,
     <<"h","t","t","p","s",":","/","/","m","e","d","i","a","s","2","4",".","c","o","m","/","f","e","e","d">>,
     <<"h","t","t","p","s",":","/","/","w","w","w",".","l","a","v","i","e","e","c","o",".","c","o","m","/","f","e","e","d">>,
     <<"h","t","t","p","s",":","/","/","w","w","w",".","a","u","j","o","u","r","d","h","u","i",".","m","a","/","f","e","e","d">>,
     <<"h","t","t","p","s",":","/","/","l","e","d","e","s","k",".","m","a","/","f","e","e","d">>,
     <<"h","t","t","p","s",":","/","/","f","r",".","l","e","3","6","0",".","m","a","/","e","c","o","n","o","m","i","e","/","f","e","e","d">>,
     <<"h","t","t","p","s",":","/","/","a","r",".","l","e","3","6","0",".","m","a","/","e","c","o","n","o","m","i","e","/","f","e","e","d">>,
     <<"h","t","t","p","s",":","/","/","w","w","w",".","h","e","s","p","r","e","s","s",".","c","o","m","/","e","c","o","n","o","m","i","e","/","f","e","e","d">>,
     <<"h","t","t","p","s",":","/","/","l","e","m","a","t","i","n",".","m","a","/","r","s","s">> >>

ECON_KEYWORDS ==
  << <<"eacute","c","o","n","o","m","i","e">>,
     <<"e","c","o","n","o","m","y">>,
     <<"b","u","s","i","n","e","s","s">>,
     <<"f","i","n","a","n","c","e">>,
     <<"b","o","u","r","s","e">>,
     <<"m","a","r","c","h","eacute">>,
     <<"b","a","n","q","u","e">>,
     <<"b","a","n","k">>,
     <<"i","n","v","e","s","t","i","s","s","e","m","e","n","t">>,
     <<"i","n","v","e","s","t","m","e","n","t">>,
     <<"e","n","t","r","e","p","r","i","s","e">>,
     <<"P","M","E">>,
     <<"i","n","f","l","a","t","i","o","n">>,
     <<"c","r","o","i","s","s","a","n","c","e">>,
     <<"P","I","B">>,
     <<"e","x","p","o","r","t">>,
     <<"i","m","p","o","r","t">>,
     <<"c","o","m","m","e","r","c","e">>,
     <<"i","n","d","u","s","t","r","i","e">>,
     <<"eacute","n","e","r","g","i","e">>,
     <<"o","i","l">>,
     <<"g","a","z">>,
     <<"m","i","n","e","s">>,
     <<"t","e","l","e","c","o","m">>,
     <<"t","o","u","r","i","s","m","e">> >>

\* the domains of the url test of the relevance filter (app.py:160)
FILTERED_DOMAINS ==
  << <<"t","e","l","q","u","e","l">>,
     <<"l","e","m","a","t","i","n">>,
     <<"l","e","3","6","0">>,
     <<"h","e","s","p","r","e","s","s">> >>

SANS_TITRE == <<"(","s","a","n","s"," ","t","i","t","r","e",")">>

RESUME_NON_DISPONIBLE == <<"(","R","eacute","s","u","m","eacute"," ","n","o","n"," ","d","i","s","p","o","n","i","b","l","e",")">>

BOURSENEWS == <<"B","o","u","r","s","e","n","e","w","s">>

LEBOURSIER == <<"L","e","B","o","u","r","s","i","e","r">>

\* the time of an item that has no timestamp (app.py:108, app.py:135)
NO_TIME == <<"-","-",":","-","-">>

----------------------------------------------------------------------------
(* Bounds of the model *)

\* longest text given to simple_summarize on its own
MaxTextLen == 5

\* largest word budget given to simple_summarize on its own
MaxWordsArg == 3

\* largest sentence budget given to simple_summarize on its own
MaxSentencesArg == 2

\* most items one run collects before the dedup loop
MaxItems == 2

\* most elements the selector of a scraper matches on one page
MaxArticles == 2

\* last calendar day the date input offers
MaxDay == 2

\* minutes after StartClock at which an entry can be read
MaxTicks == 1

----------------------------------------------------------------------------
(* Strings *)

Whitespace == {" ", "\n"}

Markup == {"<p>", "</p>", "<br>"}

SentenceEnd == {".", "!", "?"}

UpperCase ==
  <<"A","B","C","D","E","F","G","H","I","J","K","L","M","N","O","P","Q","R",
    "S","T","U","V","W","X","Y","Z","Eacute">>

LowerCase ==
  <<"a","b","c","d","e","f","g","h","i","j","k","l","m","n","o","p","q","r",
    "s","t","u","v","w","x","y","z","eacute">>

\* str.lower on one character
lower_char(c) ==
  IF \E i \in 1..Len(UpperCase) : UpperCase[i] = c
  THEN LowerCase[CHOOSE i \in 1..Len(UpperCase) : UpperCase[i] = c]
  ELSE c

\* str.lower
lower(s) == [i \in 1..Len(s) |-> lower_char(s[i])]

\* needle in hay (substring test)
contains(hay, needle) ==
  \E i \in 0..(Len(hay) - Len(needle)) :
    \A j \in 1..Len(needle) : hay[i + j] = needle[j]

RECURSIVE lstrip(_)
lstrip(s) ==
  IF s # <<>> /\ Head(s) \in Whitespace THEN lstrip(Tail(s)) ELSE s

RECURSIVE rstrip(_)
rstrip(s) ==
  IF s # <<>> /\ s[Len(s)] \in Whitespace
  THEN rstrip(SubSeq(s, 1, Len(s) - 1))
  ELSE s

\* str.strip
strip(s) == rstrip(lstrip(s))

\* sep.join(parts)
RECURSIVE join(_, _)
join(sep, parts) ==
  IF parts = <<>> THEN <<>>
  ELSE IF Len(parts) = 1 THEN parts[1]
  ELSE parts[1] \o sep \o join(sep, Tail(parts))

\* str.split(): the maximal runs of non-whitespace
RECURSIVE split_ws(_, _)
split_ws(s, cur) ==
  IF s = <<>> THEN (IF cur = <<>> THEN <<>> ELSE <<cur>>)
  ELSE IF Head(s) \in Whitespace
       THEN (IF cur = <<>> THEN <<>> ELSE <<cur>>) \o split_ws(Tail(s), <<>>)
       ELSE split_ws(Tail(s), Append(cur, Head(s)))

words(s) == split_ws(s, <<>>)

\* re.sub(r"\s+", " ", s)
RECURSIVE collapse_ws(_)
collapse_ws(s) ==
  IF s = <<>> THEN <<>>
  ELSE IF Head(s) \in Whitespace
       THEN <<" ">> \o collapse_ws(lstrip(s))
       ELSE <<Head(s)>> \o collapse_ws(Tail(s))

\* re.split(r"(?<=[\.\!\?])\s+", s): cut at each run of whitespace that
\* follows a sentence end
RECURSIVE split_sentences(_, _)
split_sentences(s, cur) ==
  IF s = <<>> THEN <<cur>>
  ELSE IF Head(s) \in Whitespace /\ cur # <<>> /\ cur[Len(cur)] \in SentenceEnd
       THEN <<cur>> \o split_sentences(lstrip(s), <<>>)
       ELSE split_sentences(Tail(s), Append(cur, Head(s)))

\* the text nodes of a document: the runs of tokens between markup tags
RECURSIVE text_nodes(_, _)
text_nodes(s, cur) ==
  IF s = <<>> THEN <<cur>>
  ELSE IF Head(s) \in Markup
       THEN <<cur>> \o text_nodes(Tail(s), <<>>)
       ELSE text_nodes(Tail(s), Append(cur, Head(s)))

NonEmpty(s) == s # <<>>

\* BeautifulSoup(text).get_text(" ", strip=True): every text node stripped,
\* the empty ones skipped, the rest joined by one space
get_text(text) ==
  LET nodes == text_nodes(text, <<>>)
      stripped == [i \in 1..Len(nodes) |-> strip(nodes[i])]
  IN  join(<<" ">>, SelectSeq(stripped, NonEmpty))

clean_html(text) ==
  IF text = <<>> THEN <<>> ELSE get_text(text)

----------------------------------------------------------------------------
(* simple_summarize (app.py:44-66) *)

\* the for loop over the sentences, from sentence i on
RECURSIVE pick_sentences(_, _, _, _, _, _)
pick_sentences(sentences, i, picked, word_count, max_sentences, max_words) ==
  IF i > Len(sentences) THEN picked
  ELSE LET s == sentences[i]
           w == Len(words(s))
       IN  IF w = 0
           THEN pick_sentences(sentences, i + 1, picked, word_count,
                               max_sentences, max_words)
           ELSE IF word_count + w > max_words /\ picked # <<>>
           THEN picked
           ELSE IF Len(picked) + 1 >= max_sentences
           THEN Append(picked, s)
           ELSE pick_sentences(sentences, i + 1, Append(picked, s),
                               word_count + w, max_sentences, max_words)

\* simple_summarize without the cut to max_words
simple_summarize_untruncated(text, max_sentences, max_words) ==
  LET txt == strip(collapse_ws(clean_html(text)))
  IN  IF txt = <<>> THEN <<>>
      ELSE join(<<" ">>, pick_sentences(split_sentences(txt, <<>>), 1, <<>>, 0,
                                        max_sentences, max_words))

simple_summarize(text, max_sentences, max_words) ==
  LET txt == strip(collapse_ws(clean_html(text)))
  IN  IF txt = <<>> THEN <<>>
      ELSE LET sentences == split_sentences(txt, <<>>)
               picked == pick_sentences(sentences, 1, <<>>, 0,
                                        max_sentences, max_words)
               summary == join(<<" ">>, picked)
               ws == words(summary)
           IN  IF Len(ws) > max_words
               THEN join(<<" ">>, SubSeq(ws, 1, max_words)) \o <<" ", "ellipsis">>
               ELSE summary

\* the defaults of simple_summarize (app.py:44)
DEFAULT_MAX_SENTENCES == 2

DEFAULT_MAX_WORDS == 50

----------------------------------------------------------------------------
(* Dates and times.  A calendar date is its day number; a struct_time is   *)
(* [tm_day, tm_hour, tm_min]; a datetime is [day, hour, minute, tzinfo].   *)

TIMEZONE == "Africa/Casablanca"

\* utcoffset of TIMEZONE in minutes (UTC+01:00)
CASABLANCA_UTC_OFFSET == 60

MinutesPerDay == 24 * 60

\* Python's None
None == [none |-> TRUE]

utcoffset(tz) == IF tz = TIMEZONE THEN CASABLANCA_UTC_OFFSET ELSE 0

\* minutes since day 0, 00:00 UTC
utc_minutes(dt) ==
  dt.day * MinutesPerDay + dt.hour * 60 + dt.minute - utcoffset(dt.tzinfo)

from_utc_minutes(m, tz) ==
  LET local == m + utcoffset(tz)
  IN  [day    |-> local \div MinutesPerDay,
       hour   |-> (local % MinutesPerDay) \div 60,
       minute |-> local % 60,
       tzinfo |-> tz]

\* datetime.astimezone(tz)
astimezone(dt, tz) == from_utc_minutes(utc_minutes(dt), tz)

\* datetime.now(tz), the clock counting minutes UTC
now(clk, tz) == from_utc_minutes(clk, tz)

Digits == <<"0","1","2","3","4","5","6","7","8","9">>

\* dt.strftime("%H:%M")
strftime_HM(dt) ==
  << Digits[(dt.hour \div 10) + 1], Digits[(dt.hour % 10) + 1], ":",
     Digits[(dt.minute \div 10) + 1], Digits[(dt.minute % 10) + 1] >>

TIMESTAMP_KEYS == <<"published_parsed", "updated_parsed", "created_parsed">>

\* the loop taking the first field that is present, null or not
RECURSIVE scan_timestamp_keys_first_present(_, _, _)
scan_timestamp_keys_first_present(entry, i, t) ==
  IF i > 3 THEN t
  ELSE IF <<"published_parsed", "updated_parsed", "created_parsed">>[i]
            \in DOMAIN entry
       THEN entry[<<"published_parsed", "updated_parsed", "created_parsed">>[i]]
       ELSE scan_timestamp_keys_first_present(entry, i + 1, t)

\* the for loop of parse_entry_datetime from key i on, t the value so far
RECURSIVE scan_timestamp_keys(_, _, _)
scan_timestamp_keys(entry, i, t) ==
  IF i > Len(TIMESTAMP_KEYS) THEN t
  ELSE LET key == TIMESTAMP_KEYS[i]
       IN  IF key \in DOMAIN entry
           THEN IF entry[key] # None
                THEN entry[key]
                ELSE scan_timestamp_keys(entry, i + 1, entry[key])
           ELSE scan_timestamp_keys(entry, i + 1, t)

parse_entry_datetime(entry) ==
  LET t == scan_timestamp_keys(entry, 1, None)
  IN  IF t = None THEN None
      ELSE [day |-> t.tm_day, hour |-> t.tm_hour, minute |-> t.tm_min,
            tzinfo |-> TIMEZONE]

\* same_day comparing the date in UTC
same_day_utc(dt, target_day) ==
  LET local == astimezone(dt, "UTC")
  IN  local.day = target_day

same_day(dt, target_day) ==
  LET local == astimezone(dt, TIMEZONE)
  IN  local.day = target_day

----------------------------------------------------------------------------
(* The body of the entry loop of fetch_news_for_day (app.py:151-168) *)

\* dict.get(key, default)
dict_get(d, key, default) == IF key \in DOMAIN d THEN d[key] ELSE default

\* entry.get("summary") or entry.get("description") or ""
entry_desc(entry) ==
  IF "summary" \in DOMAIN entry /\ entry["summary"] # <<>>
  THEN entry["summary"]
  ELSE IF "description" \in DOMAIN entry /\ entry["description"] # <<>>
       THEN entry["description"]
       ELSE <<>>

\* any(domain in url for domain in [...])
url_is_filtered(url) ==
  \E i \in 1..Len(FILTERED_DOMAINS) : contains(url, FILTERED_DOMAINS[i])

\* the keyword test with the keywords lower-cased as well
has_econ_keyword_any_case(haystack) ==
  \E i \in 1..Len(ECON_KEYWORDS) : contains(haystack, lower(ECON_KEYWORDS[i]))

\* any(k in haystack for k in ECON_KEYWORDS)
has_econ_keyword(haystack) ==
  \E i \in 1..Len(ECON_KEYWORDS) : contains(haystack, ECON_KEYWORDS[i])

\* parse_entry_datetime(entry) or datetime.now(TIMEZONE)
entry_dt(entry, clk) ==
  IF parse_entry_datetime(entry) # None
  THEN parse_entry_datetime(entry)
  ELSE now(clk, TIMEZONE)

\* what one entry appends to items: <<>> or one item
process_entry(url, source_title, entry, target_day, clk) ==
  LET dt == entry_dt(entry, clk)
      title == clean_html(dict_get(entry, "title", SANS_TITRE))
      link == dict_get(entry, "link", <<>>)
      desc == entry_desc(entry)
      summary == simple_summarize(desc, DEFAULT_MAX_SENTENCES, DEFAULT_MAX_WORDS)
      haystack == lower(title \o <<" ">> \o desc)
  IN  IF ~same_day(dt, target_day) THEN <<>>
      ELSE IF url_is_filtered(url) /\ ~has_econ_keyword(haystack) THEN <<>>
      ELSE << [source  |-> source_title,
               title   |-> title,
               summary |-> IF summary # <<>> THEN summary
                           ELSE RESUME_NON_DISPONIBLE,
               time    |-> strftime_HM(dt),
               link    |-> link] >>

----------------------------------------------------------------------------
(* The HTML scrapers (app.py:89-140).  A page is [error |-> TRUE] when the *)
(* request or the parse raises, else [error |-> FALSE, articles |-> the    *)
(* elements the selector matches]; an element is a function from the names *)
(* of its children to them.                                                *)

\* the try block of fetch_boursenews_html from article i on: the items at
\* the return and whether the except clause was entered.  title_tag.find("a")
\* is None for an h3 without an anchor, and .get on it raises
RECURSIVE boursenews_loop(_, _, _)
boursenews_loop(articles, i, items) ==
  IF i > Len(articles) THEN [items |-> items, raised |-> FALSE]
  ELSE LET art == articles[i]
       IN  IF "h3" \notin DOMAIN art
           THEN boursenews_loop(articles, i + 1, items)
           ELSE IF "a" \notin DOMAIN art["h3"]
           THEN [items |-> items, raised |-> TRUE]
           ELSE boursenews_loop(articles, i + 1,
                  Append(items,
                    [source  |-> BOURSENEWS,
                     title   |-> clean_html(art["h3"]["text"]),
                     summary |-> IF "p" \in DOMAIN art
                                 THEN clean_html(art["p"]["text"]) ELSE <<>>,
                     time    |-> NO_TIME,
                     link    |-> dict_get(art["h3"]["a"], "href", <<>>)]))

boursenews_try(target_day, page) ==
  IF page.error THEN [items |-> <<>>, raised |-> TRUE]
  ELSE boursenews_loop(page.articles, 1, <<>>)

fetch_boursenews_html(target_day, page) == boursenews_try(target_day, page).items

\* art.find("h2") or art.find("h3")
leboursier_title_tag(art) ==
  IF "h2" \in DOMAIN art THEN art["h2"] ELSE art["h3"]

RECURSIVE leboursier_loop(_, _, _)
leboursier_loop(articles, i, items) ==
  IF i > Len(articles) THEN [items |-> items, raised |-> FALSE]
  ELSE LET art == articles[i]
       IN  IF "h2" \notin DOMAIN art /\ "h3" \notin DOMAIN art
           THEN leboursier_loop(articles, i + 1, items)
           ELSE LET title_tag == leboursier_title_tag(art)
                IN  leboursier_loop(articles, i + 1,
                      Append(items,
                        [source  |-> LEBOURSIER,
                         title   |-> clean_html(title_tag["text"]),
                         summary |-> IF "p" \in DOMAIN art
                                     THEN clean_html(art["p"]["text"])
                                     ELSE <<>>,
                         time    |-> NO_TIME,
                         link    |-> IF "a" \in DOMAIN title_tag
                                     THEN dict_get(title_tag["a"], "href", <<>>)
                                     ELSE <<>>]))

leboursier_try(target_day, page) ==
  IF page.error THEN [items |-> <<>>, raised |-> TRUE]
  ELSE leboursier_loop(page.articles, 1, <<>>)

fetch_leboursier_html(target_day, page) == leboursier_try(target_day, page).items

----------------------------------------------------------------------------
(* The dedup loop of fetch_news_for_day (app.py:171-179) *)

\* item_key with the title alone
item_key_title_only(it) == <<it.title>>

item_key(it) == <<it.title, it.source>>

RECURSIVE dedup_loop(_, _, _, _)
dedup_loop(items, i, seen, unique) ==
  IF i > Len(items) THEN unique
  ELSE IF item_key(items[i]) \in seen
       THEN dedup_loop(items, i + 1, seen, unique)
       ELSE dedup_loop(items, i + 1, seen \cup {item_key(items[i])},
                       Append(unique, items[i]))

dedup(items) == dedup_loop(items, 1, {}, <<>>)

----------------------------------------------------------------------------
(* What the network and the user can supply *)

Days == 1..MaxDay

\* 23:59 in Casablanca on day 1
StartClock == 1 * MinutesPerDay + 22 * 60 + 59

struct_time(d, h, m) == [tm_day |-> d, tm_hour |-> h, tm_min |-> m]

LA_BOURSE == <<"L","a"," ","B","o","u","r","s","e"," ","d","e"," ","C","a","s","a","b","l","a","n","c","a"," ","e","n"," ","h","a","u","s","s","e">>

LE_DERBY == <<"L","e"," ","d","e","r","b","y"," ","d","e"," ","l","a"," ","c","a","p","i","t","a","l","e">>

LE_PIB == <<"L","e"," ","P","I","B"," ","p","r","o","g","r","e","s","s","e",".">>

GAZ == <<"G","a","z">>

OIL == <<"O","i","l">>

PIB == <<"P","I","B",".">>

LINK_1 == <<"/","/","a","/","1">>

LINK_2 == <<"/","/","a","/","2">>

\* feed.feed of a parsed feed: without a title, with an empty one, with one
FeedHeaders ==
  { [subtitle |-> <<>>], [title |-> <<>>], [title |-> BOURSENEWS] }

\* the entries the feeds of a run can hold: two with the same title and
\* different times, one with an empty title and no timestamp, one of day 2
RunEntries ==
  { [title |-> GAZ, summary |-> PIB, link |-> LINK_2,
     published_parsed |-> struct_time(1, 8, 0)],
    [title |-> GAZ, published_parsed |-> None,
     updated_parsed |-> struct_time(1, 23, 59)],
    [title |-> <<"<p>", " ", "</p>">>, link |-> LINK_1],
    [description |-> OIL, created_parsed |-> struct_time(2, 0, 30)] }

\* the elements a selector can match: one without a heading, one whose h3
\* holds an anchor, one whose h3 holds none, one with an h2 whose anchor has
\* no href
Articles ==
  { [p |-> [text |-> PIB]],
    [h3 |-> [text |-> GAZ, a |-> [name |-> "a", href |-> LINK_1]],
     p |-> [text |-> PIB]],
    [h3 |-> [text |-> OIL]],
    [h2 |-> [text |-> <<"<br>", " ">>, a |-> [name |-> "a"]]] }

SeqsUpTo(S, n) == UNION { [1..k -> S] : k \in 0..n }

Pages ==
  { [error |-> TRUE] }
  \cup { [error |-> FALSE, articles |-> a] : a \in SeqsUpTo(Articles, MaxArticles) }

----------------------------------------------------------------------------
(* State *)

VARIABLES
  pc,            \* where the script is: idle, feed, entries, boursenews,
                 \* leboursier, dedup, done
  clock,         \* the wall clock of the run, minutes UTC
  target_day,    \* selected_day, the argument of fetch_news_for_day
  url_idx,       \* position of the feed loop in RSS_FEEDS
  source_title,  \* source_title of the feed being read
  items,         \* items of fetch_news_for_day
  bn_raised,     \* fetch_boursenews_html went through its except clause
  lb_raised,     \* fetch_leboursier_html went through its except clause
  news,          \* what fetch_news_for_day returned to the page
  entry_call,    \* one entry given to the body of the entry loop
  entry_ret,     \* <<>> before the body ran, then <<what it appends>>
  sum_call,      \* one call of simple_summarize
  sum_ret        \* <<>> before the call returns, then <<its result>>

runVars ==
  <<pc, clock, target_day, url_idx, source_title, items,
    bn_raised, lb_raised, news>>

entryVars == <<entry_call, entry_ret>>

sumVars == <<sum_call, sum_ret>>

vars == <<runVars, entryVars, sumVars>>

NoCall == [none |-> TRUE]

RunInit ==
  /\ pc = "idle"
  /\ clock = StartClock
  /\ target_day = 0
  /\ url_idx = 1
  /\ source_title = <<>>
  /\ items = <<>>
  /\ bn_raised = FALSE
  /\ lb_raised = FALSE
  /\ news = <<>>

Init ==
  /\ RunInit
  /\ entry_call = NoCall /\ entry_ret = <<>>
  /\ sum_call = NoCall /\ sum_ret = <<>>

----------------------------------------------------------------------------
(* One run of the script (app.py:194-205, 143-179) *)

today(clk) == now(clk, TIMEZONE).day

\* the day the selectbox and the date input give
selected_day(mode, picked, clk) ==
  IF mode = "Aujourd'hui" THEN today(clk)
  ELSE IF mode = "Hier" THEN now(clk - MinutesPerDay, TIMEZONE).day
  ELSE picked

\* the script starts (first load, or a rerun) and calls fetch_news_for_day
Start ==
  /\ pc \in {"idle", "done"}
  /\ \E mode \in {"Aujourd'hui", "Hier", "Autre"}, picked \in Days :
       target_day' = selected_day(mode, picked, clock)
  /\ pc' = "feed"
  /\ url_idx' = 1
  /\ source_title' = <<>>
  /\ items' = <<>>
  /\ bn_raised' = FALSE
  /\ lb_raised' = FALSE
  /\ news' = <<>>
  /\ UNCHANGED <<clock, entryVars, sumVars>>

\* the feed loop moves to the next url, or ends
NextUrl ==
  IF url_idx < Len(RSS_FEEDS)
  THEN pc' = "feed" /\ url_idx' = url_idx + 1
  ELSE pc' = "boursenews" /\ url_idx' = url_idx

\* feedparser.parse raises: continue
ParseRaises ==
  /\ pc = "feed"
  /\ NextUrl
  /\ UNCHANGED <<clock, target_day, source_title, items, bn_raised,
                 lb_raised, news, entryVars, sumVars>>

\* feedparser.parse returns a feed
ParseFeed ==
  /\ pc = "feed"
  /\ \E header \in FeedHeaders :
       source_title' = dict_get(header, "title", RSS_FEEDS[url_idx])
  /\ pc' = "entries"
  /\ UNCHANGED <<clock, target_day, url_idx, items, bn_raised, lb_raised,
                 news, entryVars, sumVars>>

\* one iteration of the entry loop
ProcessEntry ==
  /\ pc = "entries"
  /\ Len(items) < MaxItems
  /\ \E entry \in RunEntries :
       items' = items \o process_entry(RSS_FEEDS[url_idx], source_title,
                                        entry, target_day, clock)
  /\ UNCHANGED <<pc, clock, target_day, url_idx, source_title,
                 bn_raised, lb_raised, news, entryVars, sumVars>>

\* feed.entries is exhausted
EndEntries ==
  /\ pc = "entries"
  /\ NextUrl
  /\ source_title' = <<>>
  /\ UNCHANGED <<clock, target_day, items, bn_raised, lb_raised, news,
                 entryVars, sumVars>>

\* the items of Boursenews put before those already collected
FetchBoursenewsPrepends ==
  /\ pc = "boursenews"
  /\ \E page \in Pages :
       LET got == fetch_boursenews_html(target_day, page)
       IN  /\ Len(items) + Len(got) <= MaxItems
           /\ bn_raised' = boursenews_try(target_day, page).raised
           /\ items' = got \o items
  /\ pc' = "leboursier"
  /\ UNCHANGED <<clock, target_day, url_idx, source_title, lb_raised,
                 news, entryVars, sumVars>>

\* items.extend(fetch_boursenews_html(target_day))
FetchBoursenews ==
  /\ pc = "boursenews"
  /\ \E page \in Pages :
       LET got == fetch_boursenews_html(target_day, page)
       IN  /\ Len(items) + Len(got) <= MaxItems
           /\ bn_raised' = boursenews_try(target_day, page).raised
           /\ items' = items \o got
  /\ pc' = "leboursier"
  /\ UNCHANGED <<clock, target_day, url_idx, source_title, lb_raised,
                 news, entryVars, sumVars>>

\* items.extend(fetch_leboursier_html(target_day))
FetchLeboursier ==
  /\ pc = "leboursier"
  /\ \E page \in Pages :
       LET got == fetch_leboursier_html(target_day, page)
       IN  /\ Len(items) + Len(got) <= MaxItems
           /\ lb_raised' = leboursier_try(target_day, page).raised
           /\ items' = items \o got
  /\ pc' = "dedup"
  /\ UNCHANGED <<clock, target_day, url_idx, source_title, bn_raised,
                 news, entryVars, sumVars>>

\* the dedup loop and the return; the page shows and exports news as it is
Return ==
  /\ pc = "dedup"
  /\ news' = dedup(items)
  /\ pc' = "done"
  /\ UNCHANGED <<clock, target_day, url_idx, source_title, items,
                 bn_raised, lb_raised, entryVars, sumVars>>

Next ==
  \/ Start
  \/ ParseRaises
  \/ ParseFeed
  \/ ProcessEntry
  \/ EndEntries
  \/ FetchBoursenews
  \/ FetchLeboursier
  \/ Return

Spec == Init /\ [][Next]_vars

----------------------------------------------------------------------------
(* The body of the entry loop on its own: one entry of one feed *)

NoField == [k \in {} |-> None]

\* each timestamp field absent, null, or set; the three set values differ
EntryStamps ==
  { a @@ b @@ c :
      a \in { NoField, [published_parsed |-> None],
              [published_parsed |-> struct_time(1, 8, 0)] },
      b \in { NoField, [updated_parsed |-> None],
              [updated_parsed |-> struct_time(1, 23, 59)] },
      c \in { NoField, [created_parsed |-> None],
              [created_parsed |-> struct_time(2, 0, 30)] } }

EntryTexts ==
  { [summary |-> <<>>],
    [title |-> <<"<p>", " ", "</p>">>, link |-> LINK_1],
    [title |-> LA_BOURSE],
    [title |-> LE_DERBY, summary |-> LE_PIB],
    [title |-> LE_DERBY, summary |-> <<>>, description |-> <<"L","e"," ","<","b","r",">","G","a","z">>] }

Entries == { a @@ b : a \in EntryStamps, b \in EntryTexts }

EntryCalls ==
  [ url_idx    : 1..Len(RSS_FEEDS),
    header     : FeedHeaders,
    entry      : Entries,
    target_day : Days,
    clk        : StartClock..(StartClock + MaxTicks) ]

EntryInit ==
  /\ RunInit
  /\ entry_call \in EntryCalls /\ entry_ret = <<>>
  /\ sum_call = NoCall /\ sum_ret = <<>>

\* the body of the entry loop runs on entry_call
CallProcessEntry ==
  /\ entry_call # NoCall
  /\ entry_ret = <<>>
  /\ entry_ret' =
       << process_entry(RSS_FEEDS[entry_call.url_idx],
                        dict_get(entry_call.header, "title",
                                 RSS_FEEDS[entry_call.url_idx]),
                        entry_call.entry, entry_call.target_day,
                        entry_call.clk) >>
  /\ UNCHANGED <<runVars, entry_call, sumVars>>

EntryNext == CallProcessEntry

EntrySpec == EntryInit /\ [][EntryNext]_vars

----------------------------------------------------------------------------
(* simple_summarize on its own *)

TextAlphabet == {"a", ".", " ", "<p>"}

SumCalls ==
  [ text          : SeqsUpTo(TextAlphabet, MaxTextLen),
    max_sentences : 0..MaxSentencesArg,
    max_words     : 0..MaxWordsArg ]

SumInit ==
  /\ RunInit
  /\ entry_call = NoCall /\ entry_ret = <<>>
  /\ sum_call \in SumCalls /\ sum_ret = <<>>

CallSummarize ==
  /\ sum_call # NoCall
  /\ sum_ret = <<>>
  /\ sum_ret' = << simple_summarize(sum_call.text, sum_call.max_sentences,
                                     sum_call.max_words) >>
  /\ UNCHANGED <<runVars, entryVars, sum_call>>

SumNext == CallSummarize

SumSpec == SumInit /\ [][SumNext]_vars

----------------------------------------------------------------------------
(* Properties of one run (Spec) *)

\* C1: whatever sources fail, the run ends and returns exactly the first-wins
\* dedup of what the sources that did not fail supplied: the items of the
\* feeds, then those of Boursenews unless its adapter failed, then those of
\* LeBoursier unless its adapter failed; a failed source supplies nothing.
C1_FailedSourceContributesNothing ==
  pc = "done" =>
    LET FromFeed(it) == it.time # NO_TIME
        FromBn(it) == it.time = NO_TIME /\ it.source = BOURSENEWS
        FromLb(it) == it.time = NO_TIME /\ it.source = LEBOURSIER
        ok == SelectSeq(items, FromFeed)
              \o (IF bn_raised THEN <<>> ELSE SelectSeq(items, FromBn))
              \o (IF lb_raised THEN <<>> ELSE SelectSeq(items, FromLb))
        K(s, i) == <<s[i].title, s[i].source>>
        Firsts == { i \in 1..Len(ok) : \A j \in 1..(i - 1) : K(ok, j) # K(ok, i) }
    IN  /\ Len(news) = Cardinality(Firsts)
        /\ \A i \in Firsts :
             news[Cardinality({ k \in Firsts : k <= i })] = ok[i]

\* C2: the returned sequence holds no two items with the same (title, source);
\* of the items with one pair it keeps the first collected, in the order
\* collected, and it keeps every item whose pair occurs once.
C2_FirstWinsDedup ==
  pc = "done" =>
    LET K(s, i) == <<s[i].title, s[i].source>>
        Firsts == { i \in 1..Len(items) :
                      \A j \in 1..(i - 1) : K(items, j) # K(items, i) }
    IN  /\ \A i, j \in 1..Len(news) : i # j => K(news, i) # K(news, j)
        /\ Len(news) = Cardinality(Firsts)
        /\ \A i \in Firsts :
             news[Cardinality({ k \in Firsts : k <= i })] = items[i]

\* a run returned after collecting two different items with one pair
C2_Witness ==
  /\ pc = "done"
  /\ Len(news) < Len(items)
  /\ \E i, j \in 1..Len(items) :
       /\ i < j
       /\ items[i].title = items[j].title
       /\ items[i].source = items[j].source
       /\ items[i].time # items[j].time
       /\ news[1] = items[i]

\* C4: the returned sequence is ordered by the time string descending: of two
\* adjacent items with HH:MM times the first has the greater or equal time.
C4_SortedByTimeDescending ==
  pc = "done" =>
    LET Order == <<"-", "0", "1", "2", "3", "4", "5", "6", "7", "8", "9", ":">>
        Ord(c) == CHOOSE k \in 1..Len(Order) : Order[k] = c
        Geq(a, b) ==
          \/ a = b
          \/ \E k \in 1..Len(a) :
               /\ \A j \in 1..(k - 1) : a[j] = b[j]
               /\ Ord(a[k]) > Ord(b[k])
    IN  \A i \in 1..(Len(news) - 1) :
          (news[i].time # NO_TIME /\ news[i + 1].time # NO_TIME)
            => Geq(news[i].time, news[i + 1].time)

\* C8: an HTML adapter that met an exception, at the request or at any
\* article, supplies no item.
C8_ExceptionYieldsEmpty ==
  LET FromBn(it) == it.time = NO_TIME /\ it.source = BOURSENEWS
      FromLb(it) == it.time = NO_TIME /\ it.source = LEBOURSIER
  IN  /\ bn_raised => SelectSeq(items, FromBn) = <<>>
      /\ lb_raised => SelectSeq(items, FromLb) = <<>>

\* C9: no returned item has both an empty title and an empty source.
C9_TitleAndSourceNotBothEmpty ==
  \A i \in 1..Len(news) : ~(news[i].title = <<>> /\ news[i].source = <<>>)

\* C10: the items of the two scrapers are the same for every target day, all
\* carry the time "--:--", stand after all the items of the feeds, and reach
\* the result unless an earlier item has their (title, source).
C10_ScraperItemsIgnoreDay ==
  pc = "done" =>
    LET FromFeed(it) == it.time # NO_TIME
        FromBn(it) == it.time = NO_TIME /\ it.source = BOURSENEWS
        FromLb(it) == it.time = NO_TIME /\ it.source = LEBOURSIER
        bn == SelectSeq(items, FromBn)
        lb == SelectSeq(items, FromLb)
        K(s, i) == <<s[i].title, s[i].source>>
    IN  /\ items = SelectSeq(items, FromFeed) \o bn \o lb
        /\ \E page \in Pages :
             \A d \in 0..MaxDay : fetch_boursenews_html(d, page) = bn
        /\ \E page \in Pages :
             \A d \in 0..MaxDay : fetch_leboursier_html(d, page) = lb
        /\ \A i \in 1..Len(items) :
             (items[i].time = NO_TIME
              /\ \A j \in 1..(i - 1) : K(items, j) # K(items, i))
               => \E k \in 1..Len(news) : news[k] = items[i]
        /\ \A i, j \in 1..Len(news) :
             (i < j /\ news[i].time = NO_TIME) => news[j].time = NO_TIME

\* a run for a day other than today returned an item of a feed followed by
\* an item of a scraper
C10_Witness ==
  /\ pc = "done"
  /\ target_day # today(clock)
  /\ Len(news) = 2
  /\ news[1].time # NO_TIME
  /\ news[2].time = NO_TIME

----------------------------------------------------------------------------
(* Properties of the body of the entry loop (EntrySpec) *)

\* C3: an entry is kept only if the calendar date of its resolved timestamp in
\* Africa/Casablanca is target_day; an entry at 23:59 of day D is kept for D
\* (when its feed is not subject to the keyword test) and dropped for D + 1.
C3_DayFilter ==
  entry_ret # <<>> =>
    LET c == entry_call
        dt == entry_dt(c.entry, c.clk)
        kept == entry_ret[1] # <<>>
    IN  /\ kept => (dt.tzinfo = TIMEZONE /\ dt.day = c.target_day)
        /\ (dt.hour = 23 /\ dt.minute = 59) =>
             /\ c.target_day = dt.day + 1 => ~kept
             /\ (c.target_day = dt.day /\ c.url_idx < 7) => kept

\* an entry of 23:59 was kept for its own day
C3_Witness ==
  /\ entry_ret # <<>>
  /\ entry_ret[1] # <<>>
  /\ entry_ret[1][1].time = <<"2", "3", ":", "5", "9">>
  /\ "updated_parsed" \in DOMAIN entry_call.entry
  /\ entry_call.entry["updated_parsed"] = struct_time(entry_call.target_day, 23, 59)

\* C5: an entry of the right day from a feed whose url names none of telquel,
\* lematin, le360, hespress (feeds 1 to 6) is always kept; one from the other
\* feeds (7 to 10) is kept iff a keyword of ECON_KEYWORDS is a substring of
\* the lower-cased "title body".  So "La Bourse de Casablanca en hausse" is
\* kept, "Le derby de la capitale" with a body without keyword is dropped.
C5_RelevanceFilter ==
  entry_ret # <<>> =>
    LET c == entry_call
        title == clean_html(dict_get(c.entry, "title", SANS_TITRE))
        body == entry_desc(c.entry)
        text == lower(title \o <<" ">> \o body)
        general == c.url_idx \in 7..10
        keyword == \E k \in 1..Len(ECON_KEYWORDS) : contains(text, ECON_KEYWORDS[k])
        kept == entry_ret[1] # <<>>
    IN  entry_dt(c.entry, c.clk).day = c.target_day =>
          /\ kept <=> (~general \/ keyword)
          /\ (general /\ title = LA_BOURSE) => kept
          /\ (general /\ title = LE_DERBY /\ body = LE_PIB) => ~kept

\* an entry of the right day from a feed under the keyword test was dropped
\* for want of a keyword
C5_Witness ==
  /\ entry_ret = << <<>> >>
  /\ entry_call.url_idx \in 7..10
  /\ entry_dt(entry_call.entry, entry_call.clk).day = entry_call.target_day
  /\ dict_get(entry_call.entry, "title", <<>>) = LE_DERBY

\* C7: parse_entry_datetime gives the instant of the first of published,
\* updated, created that is present and not null, in TIMEZONE, and nothing
\* when there is none; the caller then takes now, so that a kept item shows
\* the time of that field, else the time of now.
C7_TimestampResolutionOrder ==
  entry_ret # <<>> =>
    LET e == entry_call.entry
        keys == <<"published_parsed", "updated_parsed", "created_parsed">>
        P == { i \in 1..3 : keys[i] \in DOMAIN e /\ e[keys[i]] # None }
        first == CHOOSE i \in P : \A j \in P : i <= j
        instant == [day    |-> e[keys[first]].tm_day,
                    hour   |-> e[keys[first]].tm_hour,
                    minute |-> e[keys[first]].tm_min,
                    tzinfo |-> TIMEZONE]
    IN  /\ parse_entry_datetime(e) = IF P = {} THEN None ELSE instant
        /\ entry_ret[1] # <<>> =>
             entry_ret[1][1].time =
               strftime_HM(IF P = {} THEN now(entry_call.clk, TIMEZONE)
                           ELSE instant)

\* a kept entry whose published field is null and whose updated field is set
C7_Witness ==
  /\ entry_ret # <<>>
  /\ entry_ret[1] # <<>>
  /\ "published_parsed" \in DOMAIN entry_call.entry
  /\ entry_call.entry["published_parsed"] = None
  /\ "updated_parsed" \in DOMAIN entry_call.entry
  /\ entry_call.entry["updated_parsed"] # None
  /\ "created_parsed" \in DOMAIN entry_call.entry

----------------------------------------------------------------------------
(* Properties of simple_summarize (SumSpec) *)

\* C6: the summary has at most max_words words, or it is the first max_words
\* words of the text followed by one ellipsis token; the summary of an empty
\* text is empty.
C6_WordBudget ==
  sum_ret # <<>> =>
    LET out == words(sum_ret[1])
        all == words(clean_html(sum_call.text))
        n == sum_call.max_words
    IN  /\ \/ Len(out) <= n
           \/ /\ Len(all) > n
              /\ out = SubSeq(all, 1, n) \o << <<"ellipsis">> >>
        /\ sum_call.text = <<>> => sum_ret[1] = <<>>

\* a summary cut to a budget of at least one word
C6_Witness ==
  /\ sum_ret # <<>>
  /\ sum_call.max_words >= 1
  /\ Len(words(sum_ret[1])) = sum_call.max_words + 1
  /\ words(sum_ret[1])[sum_call.max_words + 1] = <<"ellipsis">>

====
